---------------------------- MODULE Spec2Model ----------------------------
(***************************************************************************)
(* A model of application.ts: the Route path matcher, the Router           *)
(* (registry, base path, guards, redirects, history writes, events) and    *)
(* the App listener that mounts or reuses views.                           *)
(*                                                                         *)
(* Strings are sequences of one-character strings, so that matching,       *)
(* prefix stripping and percent-encoding are computed character by         *)
(* character as the code computes them.                                    *)
(***************************************************************************)
EXTENDS Integers, Sequences, FiniteSets, TLC

(***************************************************************************)
(* Bounds of the model.                                                    *)
(***************************************************************************)
\* Longest string handed to setBasePath in SpecBase.
MaxBaseLen == 5
\* Entries the route registry may hold.
MaxRoutes == 2
\* navigate / start / popstate calls in one behaviour.
MaxNav == 2

(***************************************************************************)
(* Strings.                                                                *)
(***************************************************************************)
Str0 == << >>

startsWith(s, p) ==
    /\ Len(p) <= Len(s)
    /\ SubSeq(s, 1, Len(p)) = p

slice(s, n) == SubSeq(s, n + 1, Len(s))

Range(f) == { f[i] : i \in DOMAIN f }

\* Index of the first occurrence of needle in s at or after position i; 0 when absent.
RECURSIVE indexOfFrom(_, _, _)
indexOfFrom(s, needle, i) ==
    IF i + Len(needle) - 1 > Len(s) THEN 0
    ELSE IF SubSeq(s, i, i + Len(needle) - 1) = needle THEN i
    ELSE indexOfFrom(s, needle, i + 1)

\* String.prototype.replace(needle, by) with a string needle: the first
\* occurrence only.  (by holds no "$", so no replacement pattern applies.)
replaceFirst(s, needle, by) ==
    LET i == indexOfFrom(s, needle, 1)
    IN  IF i = 0 THEN s
        ELSE SubSeq(s, 1, i - 1) \o by \o SubSeq(s, i + Len(needle), Len(s))

(***************************************************************************)
(* encodeURIComponent / decodeURIComponent on the model's alphabet.        *)
(***************************************************************************)
\* Characters encodeURIComponent leaves alone.
Unreserved == {"a", "b", "c", "0", "2", "3", "5", "A", "F", "."}

\* The escape of each reserved character of the alphabet.
Escapes == {<<"/", <<"%", "2", "F">> >>,
            <<":", <<"%", "3", "A">> >>,
            <<"%", <<"%", "2", "5">> >>,
            <<"\\", <<"%", "5", "C">> >>}

encodeChar(c) ==
    IF c \in Unreserved THEN <<c>>
    ELSE (CHOOSE e \in Escapes : e[1] = c)[2]

RECURSIVE encodeURIComponent(_)
encodeURIComponent(s) ==
    IF s = << >> THEN << >>
    ELSE encodeChar(Head(s)) \o encodeURIComponent(Tail(s))

\* decodeURIComponent: [ok |-> FALSE] is the URIError it throws on a
\* malformed escape.
RECURSIVE decodeURIComponent(_)
decodeURIComponent(s) ==
    IF s = << >> THEN [ok |-> TRUE, val |-> << >>]
    ELSE IF Head(s) # "%"
         THEN LET r == decodeURIComponent(Tail(s))
              IN  IF r.ok THEN [ok |-> TRUE, val |-> <<Head(s)>> \o r.val] ELSE r
    ELSE IF Len(s) < 3 \/ ~(\E e \in Escapes : e[2] = SubSeq(s, 1, 3))
         THEN [ok |-> FALSE, val |-> << >>]
    ELSE LET c == (CHOOSE e \in Escapes : e[2] = SubSeq(s, 1, 3))[1]
             r == decodeURIComponent(SubSeq(s, 4, Len(s)))
         IN  IF r.ok THEN [ok |-> TRUE, val |-> <<c>> \o r.val] ELSE r

(***************************************************************************)
(* Route (route.ts).                                                       *)
(***************************************************************************)
\* The characters pathToRegExp escapes: [.+?^${}()|[\]\\]
RegexSpecial == {".", "+", "?", "^", "$", "{", "}", "(", ")", "|", "[", "]", "\\"}

RECURSIVE escapeSpecial(_)
escapeSpecial(s) ==
    IF s = << >> THEN << >>
    ELSE (IF Head(s) \in RegexSpecial THEN <<"\\", Head(s)>> ELSE <<Head(s)>>)
         \o escapeSpecial(Tail(s))

\* Length of the longest run of non-slash characters of s starting at i.
RECURSIVE runLength(_, _)
runLength(s, i) ==
    IF i > Len(s) \/ s[i] = "/" THEN 0 ELSE 1 + runLength(s, i + 1)

\* The scan of /:([^/]+)/g over the escaped pattern, from position i: the
\* compiled tokens (a literal character, or the capture group ([^/]+)) and
\* the parameter names in order of occurrence.  A backslash escape compiles
\* to the literal character that follows it.
RECURSIVE compileFrom(_, _)
compileFrom(e, i) ==
    IF i > Len(e) THEN [tokens |-> << >>, names |-> << >>]
    ELSE IF e[i] = ":" /\ runLength(e, i + 1) > 0
         THEN LET n == runLength(e, i + 1)
                  rest == compileFrom(e, i + 1 + n)
              IN  [tokens |-> <<[t |-> "grp", c |-> ""]>> \o rest.tokens,
                   names  |-> <<SubSeq(e, i + 1, i + n)>> \o rest.names]
    ELSE IF e[i] = "\\" /\ i < Len(e)
         THEN LET rest == compileFrom(e, i + 2)
              IN  [tokens |-> <<[t |-> "lit", c |-> e[i + 1]]>> \o rest.tokens,
                   names  |-> rest.names]
    ELSE LET rest == compileFrom(e, i + 1)
         IN  [tokens |-> <<[t |-> "lit", c |-> e[i]]>> \o rest.tokens,
              names  |-> rest.names]

pathToRegExp(path) == compileFrom(escapeSpecial(path), 1)

\* new Route(path, options)
Route(path, options) ==
    LET re == pathToRegExp(path)
    IN  [path |-> path, pattern |-> re.tokens, paramNames |-> re.names,
         options |-> options]

\* pattern.exec(path) for ^tokens/?$ : the captured groups, or no match.
\* A group is followed in the pattern by "/" or by the end, so its greedy
\* run of non-slash characters is the only way it can match.
RECURSIVE execFrom(_, _, _, _)
execFrom(tokens, i, path, j) ==
    IF i > Len(tokens)
    THEN IF j > Len(path) \/ (j = Len(path) /\ path[j] = "/")
         THEN [ok |-> TRUE, caps |-> << >>]
         ELSE [ok |-> FALSE, caps |-> << >>]
    ELSE IF tokens[i].t = "lit"
         THEN IF j <= Len(path) /\ path[j] = tokens[i].c
              THEN execFrom(tokens, i + 1, path, j + 1)
              ELSE [ok |-> FALSE, caps |-> << >>]
    ELSE LET n == runLength(path, j)
         IN  IF n = 0 THEN [ok |-> FALSE, caps |-> << >>]
             ELSE LET r == execFrom(tokens, i + 1, path, j + n)
                  IN  IF r.ok
                      THEN [ok |-> TRUE, caps |-> <<SubSeq(path, j, j + n - 1)>> \o r.caps]
                      ELSE r

\* A RouteParams object: the set of its <<name, value>> entries, one per name.
NoParams == {}

Put(d, k, v) == {e \in d : e[1] # k} \cup {<<k, v>>}

Has(d, k) == \E e \in d : e[1] = k

Get(d, k) == (CHOOSE e \in d : e[1] = k)[2]

\* paramNames.forEach((name, index) => params[name] = decodeURIComponent(match[index + 1]))
RECURSIVE zipParams(_, _, _)
zipParams(names, caps, acc) ==
    IF names = << >> THEN [kind |-> "params", params |-> acc]
    ELSE LET d == decodeURIComponent(Head(caps))
         IN  IF ~d.ok THEN [kind |-> "throws", params |-> NoParams]
             ELSE zipParams(Tail(names), Tail(caps), Put(acc, Head(names), d.val))

\* Route.match(path): kind "null" (no match), "params" or "throws".
match(route, path) ==
    LET m == execFrom(route.pattern, 1, path, 1)
    IN  IF ~m.ok THEN [kind |-> "null", params |-> NoParams]
        ELSE zipParams(route.paramNames, m.caps, NoParams)

\* Route.generate(params): entries is Object.entries(params), the pairs
\* <<key, value>> in insertion order.
RECURSIVE generateFrom(_, _)
generateFrom(path, entries) ==
    IF entries = << >> THEN path
    ELSE generateFrom(
            replaceFirst(path, <<":">> \o Head(entries)[1],
                         encodeURIComponent(Head(entries)[2])),
            Tail(entries))

generate(route, entries) == generateFrom(route.path, entries)


(***************************************************************************)
(* Values of the model: paths, handlers, guards, metadata.                 *)
(***************************************************************************)
PRoot == <<"/">>
PB    == <<"/", "b">>
PAB   == <<"/", "a", "b">>
PX    == <<"/", ":", "c">>
PAslB == <<"/", "a", "/", "b">>
BaseA == <<"/", "a">>

\* A handler is a view class constructor or a string identifier
\* (RouteHandler, types.ts); NoHandler is undefined.
NoHandler == [kind |-> "undefined", name |-> ""]
Class(n)  == [kind |-> "class", name |-> n]
Named(n)  == [kind |-> "string", name |-> n]

\* Route metadata (RouteOptions.meta); NoMeta is undefined.
NoMeta == [def |-> FALSE, layout |-> "undefined"]
Meta(l) == [def |-> TRUE, layout |-> l]

\* RouteOptions.canEnter: undefined, or one of the guard functions the
\* model maps routes with:
\*   deny      () => false
\*   redirect  () => to
\*   onlyB     (params) => params.c === 'b' ? true : '/b'
NoGuard      == [kind |-> "undefined", to |-> Str0]
Deny         == [kind |-> "deny", to |-> Str0]
Redirect(to) == [kind |-> "redirect", to |-> to]
OnlyB        == [kind |-> "onlyB", to |-> PB]
Throws       == [kind |-> "throws", to |-> Str0]
Rejects      == [kind |-> "rejects", to |-> Str0]

Options(g, m) == [canEnter |-> g, meta |-> m]

\* What a guard returns: true, false or a redirect path (RouteGuard, types.ts).
GTrue      == [kind |-> "true", to |-> Str0]
GFalse     == [kind |-> "false", to |-> Str0]
GString(p) == [kind |-> "string", to |-> p]
\* The guard threw, or the promise it returned was rejected.
GThrown    == [kind |-> "thrown", to |-> Str0]

\* The guard function itself, applied to the route parameters.
applyGuard(g, params) ==
    CASE g.kind = "deny"     -> GFalse
      [] g.kind = "redirect" -> GString(g.to)
      [] g.kind = "onlyB"    ->
            IF Has(params, <<"c">>) /\ Get(params, <<"c">>) = <<"b">>
            THEN GTrue ELSE GString(g.to)
      [] g.kind = "throws"   -> GThrown
      [] g.kind = "rejects"  -> GThrown
      [] OTHER               -> GTrue

\* Mutant of canEnter: the guard's answer is dropped.
canEnterIgnoresGuard(route, params) == GTrue

\* Route.canEnter(params)
canEnter(route, params) ==
    IF route.options.canEnter.kind = "undefined" THEN GTrue
    ELSE applyGuard(route.options.canEnter, params)

\* The router.map(path, handler, options) calls the model makes.
RouteDefs ==
    { [path |-> PRoot, handler |-> Class("HomeView"), options |-> Options(NoGuard, NoMeta)],
      [path |-> PB,    handler |-> Class("BView"),    options |-> Options(NoGuard, Meta("main"))],
      [path |-> PB,    handler |-> Named("b"),        options |-> Options(Deny, NoMeta)],
      [path |-> PAB,   handler |-> Class("HomeView"), options |-> Options(Redirect(PB), NoMeta)],
      [path |-> PX,    handler |-> Class("UserView"), options |-> Options(NoGuard, NoMeta)],
      [path |-> PX,    handler |-> Named("user"),     options |-> Options(OnlyB, Meta("null"))] }

\* The paths a guard of RouteDefs can redirect to.
RedirectTargets == { d.options.canEnter.to : d \in { e \in RouteDefs : e.options.canEnter.kind \in {"redirect", "onlyB"} } }

\* The paths handed to navigate (by the application or by a link click).
NavPaths == {PRoot, PB, PAB, PAslB}

\* The not-found handlers handed to router.notFound.
NotFoundHandlers == {Class("NotFoundView")}

\* The strings handed to setBasePath in Spec.
BaseChoices == {BaseA}

\* The page: its URL path when the script loads, and its <base href>.
InitialLocations == {PAB, PAslB}
NoBaseTag == [present |-> FALSE, href |-> Str0]
BaseTag(h) == [present |-> TRUE, href |-> h]
BaseTags == {NoBaseTag, BaseTag(<<"/", "a", "/">>)}


(***************************************************************************)
(* State.                                                                  *)
(***************************************************************************)
VARIABLES
    \* Router (router.ts:10-16)
    routes,             \* Map<string, {route, handler}> in insertion order
    notFoundHandler,
    isInitialized,
    basePath,
    currentPath,
    currentParams,
    currentMeta,
    \* The browser: the session history (entries and current index; the
    \* current entry is window.location.pathname) and the <base href> tag.
    hist,
    histIdx,
    baseTag,
    \* Every event dispatched, in order, with what a listener reads from the
    \* router and the location while it runs.
    events,
    \* The navigate() calls suspended at "await route.canEnter(params)".
    inflight,
    \* The navigate() call that settled last.
    last,
    \* Calls made so far.
    navCount,
    startCalls,
    \* The call under test in SpecRoute and SpecBase.
    probe,
    \* The App that owns the router (App.ts:37-45).
    app

routerVars  == <<routes, notFoundHandler, isInitialized, basePath,
                 currentPath, currentParams, currentMeta>>
browserVars == <<hist, histIdx, baseTag>>
navVars     == <<inflight, last, navCount, startCalls>>
vars == <<routerVars, browserVars, events, navVars, probe, app>>

BEFORE_NAVIGATE == "navigation:before"
NAVIGATE  == "navigation:navigate"
NOT_FOUND == "navigation:notfound"

(***************************************************************************)
(* The state a navigation reads and writes, as one value: the operators    *)
(* below are the statements of router.ts, composed in the code's order.    *)
(* steps names the statements executed, in order.                          *)
(***************************************************************************)
RS == [hist |-> hist, histIdx |-> histIdx,
       currentPath |-> currentPath, currentParams |-> currentParams,
       currentMeta |-> currentMeta, events |-> events, steps |-> << >>]

Observable(rs) == [rs EXCEPT !.steps = << >>]

location(rs) == rs.hist[rs.histIdx]

\* window.history.pushState({path}, '', path): entries after the current one
\* are dropped and path becomes the current entry.
pushState(rs, path) ==
    [rs EXCEPT !.hist = SubSeq(rs.hist, 1, rs.histIdx) \o <<path>>,
               !.histIdx = rs.histIdx + 1,
               !.steps = Append(@, "pushState")]

\* window.history.replaceState({path}, '', path)
replaceState(rs, path) ==
    [rs EXCEPT !.hist = [rs.hist EXCEPT ![rs.histIdx] = path],
               !.steps = Append(@, "replaceState")]

\* What a listener reads while an event is dispatched.
Seen(rs, base) ==
    [currentPath |-> rs.currentPath, currentParams |-> rs.currentParams,
     currentMeta |-> rs.currentMeta, location |-> location(rs), basePath |-> base]

\* target.dispatchEvent(new CustomEvent(type, {detail})): listeners run
\* synchronously, in the state the dispatching code has reached.
dispatchEvent(rs, base, target, type, detail) ==
    [rs EXCEPT !.events = Append(@, [target |-> target, type |-> type,
                                     detail |-> detail, seen |-> Seen(rs, base)]),
               !.steps = Append(@, IF target = "router" THEN "dispatchRouter"
                                                         ELSE "dispatchWindow")]

Detail(path, params, handler, meta) ==
    [path |-> path, params |-> params, handler |-> handler, meta |-> meta]

\* Router.stripBasePath
stripBasePath(base, fullPath) ==
    IF base = Str0 THEN fullPath
    ELSE IF startsWith(fullPath, base)
         THEN LET stripped == slice(fullPath, Len(base))
              IN  IF stripped = Str0 THEN <<"/">> ELSE stripped
         ELSE fullPath

\* Router.addBasePath
addBasePath(base, routePath) ==
    IF base = Str0 THEN routePath
    ELSE LET normalizedPath == IF startsWith(routePath, <<"/">>) THEN routePath
                                ELSE <<"/">> \o routePath
         IN  base \o normalizedPath

\* Router.setBasePath: base.replace(/\/$/, '').replace(/^(?!\/)/, '/')
normalizeBase(base) ==
    LET noTrail == IF base # Str0 /\ base[Len(base)] = "/"
                   THEN SubSeq(base, 1, Len(base) - 1) ELSE base
    IN  IF noTrail # Str0 /\ noTrail[1] = "/" THEN noTrail ELSE <<"/">> \o noTrail

\* Router.start, the base path read from <base href>:
\* new URL(href, origin).pathname.replace(/\/$/, '').  The hrefs of the
\* model are paths without dot segments, whose pathname is the href with a
\* leading slash.
detectBase(tag) ==
    LET pathname == IF startsWith(tag.href, <<"/">>) THEN tag.href
                    ELSE <<"/">> \o tag.href
    IN  IF pathname[Len(pathname)] = "/"
        THEN SubSeq(pathname, 1, Len(pathname) - 1) ELSE pathname

\* Router.map: Map.set keeps the position of a key that is already present.
Entry(d) == [route |-> Route(d.path, d.options), handler |-> d.handler]

NoEntry == [route |-> Route(Str0, Options(NoGuard, NoMeta)), handler |-> NoHandler]

HasKey(reg, path) == \E i \in DOMAIN reg : reg[i].route.path = path

\* Mutant of mapSet: a path mapped again moves to the end of the order.
mapSetMoved(reg, d) ==
    Append(SelectSeq(reg, LAMBDA e : e.route.path # d.path), Entry(d))

mapSet(reg, d) ==
    IF HasKey(reg, d.path)
    THEN [i \in DOMAIN reg |-> IF reg[i].route.path = d.path THEN Entry(d) ELSE reg[i]]
    ELSE Append(reg, Entry(d))

\* Router.findRoute: the first entry, in insertion order, whose route
\* matches; a match that throws ends the scan.
RECURSIVE findRouteFrom(_, _, _)
findRouteFrom(reg, path, i) ==
    IF i > Len(reg) THEN [kind |-> "null", entry |-> NoEntry, params |-> NoParams]
    ELSE LET m == match(reg[i].route, path)
         IN  IF m.kind = "throws"
             THEN [kind |-> "throws", entry |-> NoEntry, params |-> NoParams]
             ELSE IF m.kind = "params"
             THEN [kind |-> "found", entry |-> reg[i], params |-> m.params]
             ELSE findRouteFrom(reg, path, i + 1)

\* Mutant of findRoute: the last matching entry wins.
RECURSIVE findRouteBack(_, _, _)
findRouteBack(reg, path, i) ==
    IF i < 1 THEN [kind |-> "null", entry |-> NoEntry, params |-> NoParams]
    ELSE LET m == match(reg[i].route, path)
         IN  IF m.kind = "params"
             THEN [kind |-> "found", entry |-> reg[i], params |-> m.params]
             ELSE findRouteBack(reg, path, i - 1)

findRouteLast(reg, path) == findRouteBack(reg, path, Len(reg))

findRoute(reg, path) == findRouteFrom(reg, path, 1)

\* Mutant of emitNavigation: the events are dispatched before the current
\* route is stored.
emitNavigationDispatchFirst(rs, base, path, params, handler, meta) ==
    LET detail == Detail(path, params, handler, meta)
        onRouter == dispatchEvent(rs, base, "router", NAVIGATE, detail)
        onWindow == dispatchEvent(onRouter, base, "window", NAVIGATE, detail)
    IN  [onWindow EXCEPT !.currentPath = path, !.currentParams = params,
                         !.currentMeta = meta,
                         !.steps = Append(@, "setCurrent")]

\* Router.emitNavigation
emitNavigation(rs, base, path, params, handler, meta) ==
    LET stored == [rs EXCEPT !.currentPath = path, !.currentParams = params,
                             !.currentMeta = meta,
                             !.steps = Append(@, "setCurrent")]
        detail == Detail(path, params, handler, meta)
        onRouter == dispatchEvent(stored, base, "router", NAVIGATE, detail)
    IN  dispatchEvent(onRouter, base, "window", NAVIGATE, detail)

\* Mutant of emitNotFound: the events are dispatched and the current route
\* is left as it was.
emitNotFoundNoStore(rs, base, nf, path) ==
    IF nf # NoHandler
    THEN LET detail == Detail(path, NoParams, nf, NoMeta)
             onRouter == dispatchEvent(rs, base, "router", NOT_FOUND, detail)
         IN  dispatchEvent(onRouter, base, "window", NOT_FOUND, detail)
    ELSE rs

\* Router.emitNotFound
emitNotFound(rs, base, nf, path) ==
    IF nf # NoHandler
    THEN LET stored == [rs EXCEPT !.currentPath = path, !.currentParams = NoParams,
                                  !.currentMeta = NoMeta,
                                  !.steps = Append(@, "setCurrent")]
             detail == Detail(path, NoParams, nf, NoMeta)
             onRouter == dispatchEvent(stored, base, "router", NOT_FOUND, detail)
         IN  dispatchEvent(onRouter, base, "window", NOT_FOUND, detail)
    ELSE rs

\* Router.navigate up to its first await: strip the base path, find the
\* route, and either settle (no route: emitNotFound; a match that throws:
\* the promise rejects) or call the guard and suspend.
navigateCall(reg, base, nf, rs, path) ==
    LET routePath == stripBasePath(base, path)
        m == findRoute(reg, routePath)
    IN  IF m.kind = "throws"
        THEN [out |-> "threw", rs |-> rs, routePath |-> routePath,
              entry |-> NoEntry, params |-> NoParams, guardResult |-> GTrue]
        ELSE IF m.kind = "null"
        THEN [out |-> "notfound", rs |-> emitNotFound(rs, base, nf, routePath),
              routePath |-> routePath,
              entry |-> NoEntry, params |-> NoParams, guardResult |-> GTrue]
        ELSE [out |-> "await", rs |-> rs, routePath |-> routePath,
              entry |-> m.entry, params |-> m.params,
              guardResult |-> canEnter(m.entry.route, m.params)]

\* Router.navigate after the guard allowed: the history write and the event.
commitNavigation(rs, base, replace, routePath, entry, params) ==
    LET fullPath == addBasePath(base, routePath)
        written == IF replace THEN replaceState(rs, fullPath)
                   ELSE pushState(rs, fullPath)
    IN  emitNavigation(written, base, routePath, params, entry.handler,
                       entry.route.options.meta)


(***************************************************************************)
(* App (App.ts) and the part of AppView it calls.  A view or layout        *)
(* instance is its index in instances (0 is null); log records, per        *)
(* navigation event, the constructions, the hooks invoked and the          *)
(* transitions begun.  The content of the DOM is not modelled.             *)
(***************************************************************************)
\* The view classes of the application are HomeView, BView, UserView and
\* NotFoundView, its layout classes MainLayout and BareLayout.
\* onParamsChanged?() and onMounted?() are optional (AppView).
onParamsChangedDefined(cls) == cls \in {"UserView"}

onMountedDefined(cls) == cls \in {"UserView", "BView"}

onBeforeMountDefined(cls) == cls \in {"UserView", "HomeView"}

\* Whether the layout's template holds a [data-outlet="content"] stack-view.
hasOutlet(cls) == cls = "MainLayout"

\* The registerView / registerLayout / setDefaultLayout calls the model makes.
ViewRegistrations == { <<"user", "UserView">> }

LayoutRegistrations ==
    { <<"main", "MainLayout">>, <<"side", "BareLayout">>, <<"side", "MainLayout">> }

DefaultLayouts == {"side"}

NullPattern == [null |-> TRUE, pattern |-> Str0]

\* new App('#root')
NewApp ==
    [viewRegistry |-> {}, layoutRegistry |-> {}, defaultLayout |-> "null",
     currentViewInstance |-> 0, currentLayoutInstance |-> 0,
     currentRoutePath |-> NullPattern,
     instances |-> << >>, log |-> << >>, tasks |-> << >>,
     connected |-> {}, paramsChanged |-> << >>, lifecycle |-> << >>]

Log(a, nav, op, inst, params) ==
    [a EXCEPT !.log = Append(@, [nav |-> nav, op |-> op, inst |-> inst,
                                 params |-> params])]

\* An async method of App suspended at an await.
Task(nav, pc, view, layout) == [nav |-> nav, pc |-> pc, view |-> view, layout |-> layout]

Spawn(a, t) == [a EXCEPT !.tasks = Append(@, t)]

\* A lifecycle step of the instance inst, recorded in the order of execution.
lifecycleStep(a, inst, step) ==
    [a EXCEPT !.lifecycle = Append(@, [inst |-> inst, step |-> step])]

\* AppView.initialize, called by the constructor: this._state = this.state(),
\* then new TemplateBinder(...) and this.binder.bind().
initialize(a, inst) ==
    lifecycleStep(lifecycleStep(a, inst, "state"), inst, "bind")

\* new ViewClass(): the new instance is the last of instances.
construct(a, nav, cls) ==
    initialize(Log([a EXCEPT !.instances = Append(@, cls)], nav, "new",
                   Len(a.instances) + 1, NoParams),
               Len(a.instances) + 1)

\* AppView.stackViewShowing, which the stack-view calls on the view it is
\* about to show.
stackViewShowing(a, inst) ==
    IF onBeforeMountDefined(a.instances[inst])
    THEN lifecycleStep(a, inst, "onBeforeMount")
    ELSE a

\* stackViewElement.begin(instance, effect), up to the point where it waits.
begin(a, nav, inst) ==
    stackViewShowing(Log(a, nav, "begin", inst, NoParams), inst)

\* App.getRoutePattern: the same scan as Router.findRoute, whose result m
\* gives the pattern (the key of the first matching route) or null.
routePatternOf(m) ==
    [kind |-> IF m.kind = "throws" THEN "throws" ELSE "ok",
     value |-> IF m.kind = "found"
               THEN [null |-> FALSE, pattern |-> m.entry.route.path]
               ELSE NullPattern]

getRoutePattern(reg, path) == routePatternOf(findRoute(reg, path))

\* Mutant of resolveViewClass: an unregistered name falls back to HomeView.
resolveViewClassFallback(a, handler) ==
    IF handler.kind = "class" THEN handler.name
    ELSE IF handler.kind = "string" /\ Has(a.viewRegistry, handler.name)
    THEN Get(a.viewRegistry, handler.name)
    ELSE "HomeView"

\* console.error(...)
consoleError(a, nav) == Log(a, nav, "error", 0, NoParams)

\* App.resolveViewClass; "null" is null.
resolveViewClass(a, handler) ==
    IF handler.kind = "class" THEN handler.name
    ELSE IF handler.kind = "string" /\ Has(a.viewRegistry, handler.name)
    THEN Get(a.viewRegistry, handler.name)
    ELSE "null"

\* Mutant of sameView: the current instance is never reused.
sameViewNever(a, ViewClass) == FALSE

\* this.currentViewInstance && this.currentViewInstance.constructor === ViewClass
sameView(a, ViewClass) ==
    /\ a.currentViewInstance # 0
    /\ a.instances[a.currentViewInstance] = ViewClass

\* AppView.params: the currentParams of the router of the App found above
\* the element in the document, {} when the element is not in the document.
\* router is what a listener reads of the router at this point.
paramsGetter(a, inst, router) ==
    IF inst \in a.connected THEN router.currentParams ELSE NoParams

\* this.onParamsChanged(params, oldParams), as called.
onParamsChanged(a, nav, inst, params, oldParams) ==
    [a EXCEPT !.paramsChanged = Append(@, [nav |-> nav, inst |-> inst,
                                           params |-> params,
                                           oldParams |-> oldParams])]

\* AppView.updateParams up to its await: the params-changed hook, when the
\* class defines one, is called with the new params and this.params.
updateParams(a, nav, inst, params, router) ==
    LET called == Log(a, nav, "updateParams", inst, params)
    IN  IF onParamsChangedDefined(a.instances[inst])
        THEN Spawn(Log(onParamsChanged(called, nav, inst, params,
                                       paramsGetter(a, inst, router)),
                       nav, "onParamsChanged", inst, params),
                   Task(nav, "onParamsChanged", inst, 0))
        ELSE called

\* AppView.connectedCallback, run when a transition has put the element in
\* the document.
connectedCallback(a, nav, inst) ==
    LET c == [a EXCEPT !.connected = @ \cup {inst}]
    IN  IF onMountedDefined(a.instances[inst])
        THEN lifecycleStep(Log(c, nav, "onMounted", inst, NoParams), inst, "onMounted")
        ELSE c

\* App.renderWithoutLayout up to its await.
renderWithoutLayout(a, nav, view) ==
    Spawn(begin([a EXCEPT !.currentLayoutInstance = 0], nav, view),
          Task(nav, "beginView", view, 0))

\* App.renderWithLayout from the outlet lookup on, up to its await.  With
\* currentLayoutInstance null the lookup throws; without an outlet it returns.
renderIntoOutlet(a, nav, view) ==
    IF a.currentLayoutInstance = 0 THEN a
    ELSE IF ~hasOutlet(a.instances[a.currentLayoutInstance]) THEN a
    ELSE Spawn(begin(a, nav, view),
               Task(nav, "beginOutlet", view, a.currentLayoutInstance))

\* Mutant of layoutNotRegistered: the error is logged and nothing rendered.
layoutNotRegisteredAborts(a, nav, view) == consoleError(a, nav)

\* App.renderWithLayout when the registry has no class for the layout.
layoutNotRegistered(a, nav, view) ==
    renderWithoutLayout(consoleError(a, nav), nav, view)

\* Mutant of layoutReusable: the current layout is never reused.
layoutReusableNever(a, LayoutClass) == FALSE

\* The negation of !this.currentLayoutInstance ||
\* this.currentLayoutInstance.constructor !== LayoutClass
layoutReusable(a, LayoutClass) ==
    /\ a.currentLayoutInstance # 0
    /\ a.instances[a.currentLayoutInstance] = LayoutClass

\* App.renderWithLayout up to its first await.
renderWithLayout(a, nav, view, layoutHandler) ==
    IF ~Has(a.layoutRegistry, layoutHandler)
    THEN layoutNotRegistered(a, nav, view)
    ELSE LET LayoutClass == Get(a.layoutRegistry, layoutHandler)
         IN  IF ~layoutReusable(a, LayoutClass)
             THEN LET c == construct(a, nav, LayoutClass)
                      layoutInstance == Len(c.instances)
                  IN  Spawn(begin([c EXCEPT !.currentLayoutInstance = layoutInstance],
                                  nav, layoutInstance),
                            Task(nav, "beginLayout", view, layoutInstance))
             ELSE renderIntoOutlet(a, nav, view)

\* Mutant of chooseLayout: a default layout, once set, wins over the route's.
chooseLayoutDefaultFirst(a, meta) ==
    IF a.defaultLayout # "null" THEN a.defaultLayout
    ELSE IF meta.def /\ meta.layout # "undefined" THEN meta.layout
    ELSE "null"

\* meta?.layout !== undefined ? meta.layout : this.defaultLayout
chooseLayout(a, meta) ==
    IF meta.def /\ meta.layout # "undefined" THEN meta.layout ELSE a.defaultLayout

\* if (layoutHandler): null and the empty string are falsy.
truthy(layoutHandler) == layoutHandler \notin {"null", ""}

\* App.handleNavigation from resolveViewClass on, up to its first await.
showView(a, nav, detail, router) ==
    LET ViewClass == resolveViewClass(a, detail.handler)
    IN  IF ViewClass = "null" THEN consoleError(a, nav)
        ELSE IF sameView(a, ViewClass)
        THEN updateParams(a, nav, a.currentViewInstance, detail.params, router)
        ELSE
        LET layoutHandler == chooseLayout(a, detail.meta)
            c == construct(a, nav, ViewClass)
            viewInstance == Len(c.instances)
            a2 == [c EXCEPT !.currentViewInstance = viewInstance]
        IN  IF truthy(layoutHandler)
            THEN renderWithLayout(a2, nav, viewInstance, layoutHandler)
            ELSE renderWithoutLayout(a2, nav, viewInstance)

\* App.handleNavigation once getRoutePattern has returned pat: the pattern is
\* stored, and a match that throws ends the handler.
storeRoutePattern(a, pat, nav, detail, router) ==
    IF pat.kind = "throws" THEN a
    ELSE showView([a EXCEPT !.currentRoutePath = pat.value], nav, detail, router)

\* App.handleNavigation up to its first await, for the event numbered nav.
handleNavigation(a, reg, nav, detail, router) ==
    storeRoutePattern(a, getRoutePattern(reg, detail.path), nav, detail, router)

\* App.handleNotFound up to its await.
handleNotFound(a, nav, detail) ==
    LET ViewClass == resolveViewClass(a, detail.handler)
    IN  IF ViewClass = "null" THEN consoleError(a, nav)
        ELSE LET c == construct(a, nav, ViewClass)
                 viewInstance == Len(c.instances)
             IN  renderWithoutLayout([c EXCEPT !.currentViewInstance = viewInstance],
                                     nav, viewInstance)

\* The suspended method t continues from its await to its next one or its end.
resumeTask(a, t) ==
    CASE t.pc = "beginView"   -> connectedCallback(a, t.nav, t.view)
      [] t.pc = "beginLayout" ->
            renderIntoOutlet(connectedCallback(a, t.nav, t.layout), t.nav, t.view)
      [] t.pc = "beginOutlet" ->
            LET c == connectedCallback(a, t.nav, t.view)
            IN  IF onMountedDefined(c.instances[t.view])
                THEN Spawn(lifecycleStep(Log(c, t.nav, "onMounted", t.view, NoParams),
                                         t.view, "onMounted"),
                           Task(t.nav, "onMounted", t.view, t.layout))
                ELSE c
      [] OTHER                -> a

\* The listeners the App constructor adds to its router, run for the events
\* evs[k], evs[k+1], ... as the router dispatches them.
RECURSIVE dispatchToApp(_, _, _, _)
dispatchToApp(a, reg, evs, k) ==
    IF k > Len(evs) THEN a
    ELSE LET e == evs[k]
             b == IF e.target # "router" THEN a
                  ELSE IF e.type = NAVIGATE THEN handleNavigation(a, reg, k, e.detail, e.seen)
                  ELSE handleNotFound(a, k, e.detail)
         IN  dispatchToApp(b, reg, evs, k + 1)

(***************************************************************************)
(* navigate() calls.                                                       *)
(***************************************************************************)
\* start() calls in one behaviour.
MaxStarts == 2

NoFirst == [set |-> FALSE, to |-> Str0]
NoWrite == [set |-> FALSE, path |-> Str0]

\* A navigate() call: its arguments (arg, replaceArg), the locals of the hop
\* it is in (replaceState, routePath, entry = {route, handler}, params, the
\* guard's result), and
\* what an observer records about it: the first redirect it followed,
\* whether a guard was called, the state it started from (pre), whether
\* anything else ran since (alone), and once settled its result, the events
\* it dispatched, the history write it made and the statements it executed
\* last.
NewNav(id, origin, arg, replace, rs0) ==
    [id |-> id, origin |-> origin, arg |-> arg, replaceArg |-> replace,
     replaceState |-> replace,
     routePath |-> Str0, entry |-> NoEntry, params |-> NoParams,
     guardResult |-> GTrue,
     first |-> NoFirst, guarded |-> FALSE, alone |-> TRUE,
     pre |-> Observable(rs0),
     result |-> "pending", emitted |-> << >>, wrote |-> NoWrite, steps |-> << >>]

NoNav == [NewNav(0, "none", Str0, FALSE,
                 [hist |-> << >>, histIdx |-> 0, currentPath |-> Str0,
                  currentParams |-> NoParams, currentMeta |-> NoMeta,
                  events |-> << >>, steps |-> << >>])
             EXCEPT !.result = "none"]

\* Every other suspended call has seen something else run.
Disturb(navs) == [i \in DOMAIN navs |-> [navs[i] EXCEPT !.alone = FALSE]]

Remove(navs, i) == SubSeq(navs, 1, i - 1) \o SubSeq(navs, i + 1, Len(navs))

SetRS(rs) ==
    /\ hist' = rs.hist
    /\ histIdx' = rs.histIdx
    /\ currentPath' = rs.currentPath
    /\ currentParams' = rs.currentParams
    /\ currentMeta' = rs.currentMeta
    /\ events' = rs.events

\* The call n in the hop that navigateCall's result c describes.
Hop(n, c) ==
    [n EXCEPT !.routePath = c.routePath, !.entry = c.entry, !.params = c.params,
              !.guardResult = c.guardResult,
              !.guarded = (n.guarded \/ c.out = "await")]

\* The call n settled with result, having taken the state from rs0 to rs.
Settled(n, result, rs0, rs) ==
    [n EXCEPT !.result = result,
              !.emitted = SubSeq(rs.events, Len(rs0.events) + 1, Len(rs.events)),
              !.wrote = IF \E k \in DOMAIN rs.steps : rs.steps[k] \in {"pushState", "replaceState"}
                        THEN [set |-> TRUE, path |-> location(rs)] ELSE NoWrite,
              !.steps = rs.steps]

\* A call of navigate(path, replace) made in state rs0 with base path base:
\* it settles at once or joins the suspended calls.
Call(origin, path, replace, base, rs0) ==
    LET c == navigateCall(routes, base, notFoundHandler, rs0, path)
        n == Hop(NewNav(navCount + 1, origin, path, replace, rs0), c)
    IN  /\ navCount' = navCount + 1
        /\ SetRS(c.rs)
        /\ IF c.out = "await"
           THEN /\ inflight' = Append(Disturb(inflight), n)
                /\ last' = last
           ELSE /\ inflight' = Disturb(inflight)
                /\ last' = Settled(n, c.out, rs0, c.rs)

\* router.navigate(path, replaceState), from the application or from the
\* click listener (router.ts:27-35, which passes link.pathname).
Navigate(path, replace) ==
    /\ navCount < MaxNav
    /\ Call("navigate", path, replace, basePath, RS)
    /\ UNCHANGED <<routes, notFoundHandler, isInitialized, basePath, baseTag,
                   startCalls, probe>>

\* Router.handleRouteChange in state rs0.
handleRouteChange(origin, base, rs0) ==
    Call(origin, stripBasePath(base, location(rs0)), TRUE, base, rs0)

\* Mutant of Start: no isInitialized check.
StartAlways ==
    /\ startCalls < MaxStarts
    /\ startCalls' = startCalls + 1
    /\ navCount < MaxNav
    /\ basePath' = IF basePath = Str0 /\ baseTag.present
                   THEN detectBase(baseTag) ELSE basePath
    /\ isInitialized' = TRUE
    /\ handleRouteChange("start", basePath', RS)
    /\ UNCHANGED <<routes, notFoundHandler, baseTag, probe>>

\* router.start()
Start ==
    /\ startCalls < MaxStarts
    /\ startCalls' = startCalls + 1
    /\ IF isInitialized
       THEN UNCHANGED <<routerVars, browserVars, events, inflight, last, navCount, probe>>
       ELSE /\ navCount < MaxNav
            /\ basePath' = IF basePath = Str0 /\ baseTag.present
                           THEN detectBase(baseTag) ELSE basePath
            /\ isInitialized' = TRUE
            /\ handleRouteChange("start", basePath', RS)
            /\ UNCHANGED <<routes, notFoundHandler, baseTag, probe>>

\* The user goes back (delta = -1) or forward (1) in the session history;
\* the popstate listener (router.ts:22-24) runs handleRouteChange.
PopState(delta) ==
    /\ navCount < MaxNav
    /\ histIdx + delta \in 1..Len(hist)
    /\ handleRouteChange("popstate", basePath, [RS EXCEPT !.histIdx = histIdx + delta])
    /\ UNCHANGED <<routes, notFoundHandler, isInitialized, basePath, baseTag,
                   startCalls, probe>>

\* Mutant of redirect: this.navigate(guardResult), the replaceState flag
\* not passed on.
redirectPushes(n, to) ==
    [n EXCEPT !.first = IF n.first.set THEN n.first ELSE [set |-> TRUE, to |-> to],
              !.replaceState = FALSE]

\* The recursive call this.navigate(guardResult, replaceState): the same
\* call record, now for the redirect target.
redirect(n, to) ==
    [n EXCEPT !.first = IF n.first.set THEN n.first ELSE [set |-> TRUE, to |-> to]]

\* Mutant of guardThrew: the error is swallowed and the navigation commits.
guardThrewCommits(n, base, rs) ==
    [out |-> "navigated", nav |-> n,
     rs |-> commitNavigation(rs, base, n.replaceState, n.routePath, n.entry, n.params)]

\* "await route.canEnter(params)" throws: nothing in navigate catches it.
guardThrew(n, base, rs) == [out |-> "rejected", nav |-> n, rs |-> rs]

\* Mutant of followRedirect: a call that has already been redirected once
\* gives up instead of following a second redirect.
followRedirectOnce(n, c, rs) ==
    IF n.first.set THEN [out |-> "denied", nav |-> n, rs |-> rs]
    ELSE [out |-> c.out, nav |-> Hop(redirect(n, n.guardResult.to), c), rs |-> c.rs]

\* "await this.navigate(guardResult, replaceState); return": the call goes
\* on as the call c for the redirect target, however many it has followed.
followRedirect(n, c, rs) ==
    [out |-> c.out, nav |-> Hop(redirect(n, n.guardResult.to), c), rs |-> c.rs]

\* Router.navigate from "await route.canEnter(params)" on, for the suspended
\* call n in state rs: rejected, denied, redirected (into navigateCall for
\* the target) or committed.  out is "await" when the call suspends again.
resumeNavigation(n, reg, base, nf, rs) ==
    IF n.guardResult.kind = "thrown"
    THEN guardThrew(n, base, rs)
    ELSE IF n.guardResult.kind = "false"
    THEN [out |-> "denied", nav |-> n, rs |-> rs]
    ELSE IF n.guardResult.kind = "string"
    THEN followRedirect(n, navigateCall(reg, base, nf, rs, n.guardResult.to), rs)
    ELSE [out |-> "navigated", nav |-> n,
          rs |-> commitNavigation(rs, base, n.replaceState, n.routePath, n.entry, n.params)]

\* Mutant of otherCalls: a call that resumes cancels the other suspended calls.
otherCallsCancelled(navs, i) == << >>

\* The suspended calls other than the i-th, which stay suspended while it runs.
otherCalls(navs, i) == Disturb(Remove(navs, i))

\* The i-th suspended call resumes.
GuardResume(i) ==
    \E r \in {resumeNavigation(inflight[i], routes, basePath, notFoundHandler, RS)} :
        /\ SetRS(r.rs)
        /\ IF r.out = "await"
           THEN /\ inflight' = Append(otherCalls(inflight, i), r.nav)
                /\ last' = last
           ELSE /\ inflight' = otherCalls(inflight, i)
                /\ last' = Settled(r.nav, r.out, RS, r.rs)
        /\ UNCHANGED <<routes, notFoundHandler, isInitialized, basePath, baseTag,
                       navCount, startCalls, probe>>

\* The application configures the router (map, notFound, setBasePath)
\* before it makes its first navigation, as in the README's usage.
Configuring == navCount = 0

\* router.map(path, handler, options)
Map(d) ==
    /\ Configuring
    /\ HasKey(routes, d.path) \/ Len(routes) < MaxRoutes
    /\ routes' = mapSet(routes, d)
    /\ inflight' = Disturb(inflight)
    /\ UNCHANGED <<notFoundHandler, isInitialized, basePath, currentPath,
                   currentParams, currentMeta, browserVars, events, last,
                   navCount, startCalls, probe>>

\* router.notFound(handler)
NotFound(h) ==
    /\ Configuring
    /\ notFoundHandler' = h
    /\ inflight' = Disturb(inflight)
    /\ UNCHANGED <<routes, isInitialized, basePath, currentPath, currentParams,
                   currentMeta, browserVars, events, last, navCount, startCalls, probe>>

\* router.setBasePath(base)
SetBasePath(b) ==
    /\ Configuring
    /\ basePath' = normalizeBase(b)
    /\ inflight' = Disturb(inflight)
    /\ UNCHANGED <<routes, notFoundHandler, isInitialized, currentPath, currentParams,
                   currentMeta, browserVars, events, last, navCount, startCalls>>

NoProbe == [pc |-> "none"]

\* new Router() in a page loaded at one of InitialLocations.
Init ==
    /\ routes = << >>
    /\ notFoundHandler = NoHandler
    /\ isInitialized = FALSE
    /\ basePath = Str0
    /\ currentPath = <<"/">>
    /\ currentParams = NoParams
    /\ currentMeta = NoMeta
    /\ hist \in {<<l>> : l \in InitialLocations}
    /\ histIdx = 1
    /\ baseTag \in BaseTags
    /\ events = << >>
    /\ inflight = << >>
    /\ last = NoNav
    /\ navCount = 0
    /\ startCalls = 0
    /\ probe = NoProbe
    /\ app = NewApp

Next ==
    \/ \E d \in RouteDefs : Map(d) /\ UNCHANGED app
    \/ \E h \in NotFoundHandlers : NotFound(h) /\ UNCHANGED app
    \/ \E b \in BaseChoices : SetBasePath(b) /\ UNCHANGED <<probe, app>>
    \/ Start /\ UNCHANGED app
    \/ \E p \in NavPaths, r \in BOOLEAN : Navigate(p, r) /\ UNCHANGED app
    \/ \E delta \in {-1, 1} : PopState(delta) /\ UNCHANGED app
    \/ \E i \in DOMAIN inflight : GuardResume(i) /\ UNCHANGED app

Spec == Init /\ [][Next]_vars

(***************************************************************************)
(* Properties of Spec.                                                     *)
(***************************************************************************)
\* The state a navigation writes, after the step.
RSNext == [hist |-> hist', histIdx |-> histIdx',
           currentPath |-> currentPath', currentParams |-> currentParams',
           currentMeta |-> currentMeta', events |-> events', steps |-> << >>]

\* The suspended call i settles in this step.
Settles(i) == last'.id = inflight[i].id

\* A call settles in this step.
SomeSettles == last'.id # last.id

\* The indices of the registered routes that match path.
Matching(reg, path) == { k \in DOMAIN reg : match(reg[k].route, path).kind = "params" }

Least(S) == CHOOSE k \in S : \A j \in S : k <= j

\* The event dispatched on target with detail, and what its listeners read.
EventOf(target, type, detail, seen) ==
    [target |-> target, type |-> type, detail |-> detail, seen |-> seen]

\* C1: a path matched by two or more registered routes resolves via the
\* first of them in insertion order: the suspended call holds that route,
\* its params and its guard's answer, and the event of a committed call
\* carries that route's handler, params and meta.  (The path is the route
\* path the registry is searched with, router.ts:114-117.)
C1_FirstMatchWins ==
    /\ \A i \in DOMAIN inflight :
          LET n == inflight[i]
              K == Matching(routes, n.routePath)
          IN  /\ K # {}
              /\ n.entry = routes[Least(K)]
              /\ n.params = match(routes[Least(K)].route, n.routePath).params
              /\ n.guardResult = applyGuard(routes[Least(K)].route.options.canEnter, n.params)
    /\ last.result = "navigated" =>
          LET K == Matching(routes, last.routePath)
              first == routes[Least(K)]
          IN  /\ K # {}
              /\ Len(last.emitted) = 2
              /\ \A e \in Range(last.emitted) :
                    e.detail = Detail(last.routePath,
                                      match(first.route, last.routePath).params,
                                      first.handler, first.route.options.meta)

C1_Witness ==
    /\ last.result = "navigated"
    /\ Cardinality(Matching(routes, last.routePath)) >= 2
    /\ routes[1].handler # routes[2].handler
    /\ routes[1].route.options # routes[2].route.options

\* C2: when the guard of the matched route returns false, the call leaves
\* the history (entries and index), currentPath, currentParams and
\* currentMeta as they were and dispatches no event: the step that settles
\* the call changes none of them, and a call that ran with nothing else in
\* between ends in the state it started from.
C2_DeniedChangesNothing ==
    [][\A i \in DOMAIN inflight :
          (/\ Settles(i)
           /\ applyGuard(inflight[i].entry.route.options.canEnter,
                         inflight[i].params).kind = "false")
          => /\ UNCHANGED <<hist, histIdx, currentPath, currentParams, currentMeta, events>>
             /\ inflight[i].alone => Observable(RSNext) = inflight[i].pre]_vars

C2_Witness ==
    /\ last.result = "denied"
    /\ last.entry.route.options.canEnter.kind = "deny"
    /\ events # << >>

\* A whole navigate(path, replace) call run to its end from state rs, with
\* nothing else running in between: navigateCall, then resumeNavigation
\* until the call settles (fuel bounds the redirects followed).
RECURSIVE settleRun(_, _, _, _, _, _)
settleRun(n, reg, base, nf, rs, fuel) ==
    LET r == resumeNavigation(n, reg, base, nf, rs)
    IN  IF r.out # "await" \/ fuel = 0 THEN r.rs
        ELSE settleRun(r.nav, reg, base, nf, r.rs, fuel - 1)

navigateRun(reg, base, nf, rs, path, replace, fuel) ==
    LET c == navigateCall(reg, base, nf, rs, path)
    IN  IF c.out # "await" THEN c.rs
        ELSE settleRun(Hop(NewNav(0, "navigate", path, replace, rs), c),
                       reg, base, nf, c.rs, fuel)

\* C3: a call navigate(P, replaceState) whose first guard redirected to R,
\* and that ran with nothing else in between, ends in the state that
\* navigate(R, replaceState) run from the call's starting state ends in:
\* the same history, the same current route, the same events.
C3_RedirectAsDirect ==
    [][\A i \in DOMAIN inflight :
          (Settles(i) /\ inflight[i].alone /\ last'.first.set)
          => Observable(RSNext) =
               Observable(navigateRun(routes, basePath, notFoundHandler,
                                      inflight[i].pre, last'.first.to,
                                      inflight[i].replaceArg,
                                      Cardinality(RedirectTargets) + 1))]_vars

C3_Witness ==
    /\ last.first.set
    /\ last.alone
    /\ last.result = "navigated"
    /\ last.replaceArg
    /\ last.origin = "navigate"

\* C5: with a base path b set, for every route path p beginning with "/"
\* that a registered route matches and whose guard allows, navigate(p)
\* writes exactly b + p to the history and its event's detail.path is p.
C5_BasePathQualified ==
    (/\ last.origin = "navigate"
     /\ basePath \in { normalizeBase(b) : b \in BaseChoices }
     /\ startsWith(last.arg, <<"/">>)
     /\ Matching(routes, last.arg) # {}
     /\ LET r == routes[Least(Matching(routes, last.arg))].route
        IN  canEnter(r, match(r, last.arg).params).kind = "true")
    => /\ last.wrote = [set |-> TRUE, path |-> basePath \o last.arg]
       /\ last.emitted # << >>
       /\ \A e \in Range(last.emitted) : e.detail.path = last.arg

\* C6: a committed call makes one history write of the base-path-qualified
\* path (push, or replace when replaceState), then records the current
\* route, then dispatches navigation:navigate on the router and then on
\* window with the detail of the matched route; so the listeners of either
\* event read the detail's path, params and meta from the router and the
\* new path from the location.
C6_CommitOrder ==
    [][\A i \in DOMAIN inflight :
          (Settles(i) /\ last'.result = "navigated")
          => LET n == inflight[i]
                 full == basePath \o n.routePath
                 detail == Detail(n.routePath, n.params, n.entry.handler,
                                  n.entry.route.options.meta)
                 seen == [currentPath |-> n.routePath, currentParams |-> n.params,
                          currentMeta |-> n.entry.route.options.meta,
                          location |-> full, basePath |-> basePath]
             IN  /\ IF n.replaceState
                    THEN /\ hist' = [hist EXCEPT ![histIdx] = full]
                         /\ histIdx' = histIdx
                    ELSE /\ hist' = SubSeq(hist, 1, histIdx) \o <<full>>
                         /\ histIdx' = histIdx + 1
                 /\ currentPath' = n.routePath
                 /\ currentParams' = n.params
                 /\ currentMeta' = n.entry.route.options.meta
                 /\ events' = events \o <<EventOf("router", NAVIGATE, detail, seen),
                                          EventOf("window", NAVIGATE, detail, seen)>>
                 /\ last'.steps = <<IF n.replaceState THEN "replaceState" ELSE "pushState",
                                    "setCurrent", "dispatchRouter", "dispatchWindow">>]_vars

C6_Witness ==
    /\ last.result = "navigated"
    /\ basePath # Str0
    /\ last.params # NoParams
    /\ last.steps[1] = "pushState"
    /\ histIdx = 2

\* C17: a call that commits has dispatched a navigation:before event on
\* the router and on window, carrying the path, params, handler and meta
\* of the matched route, besides its navigation:navigate events.
C17_BeforeEventDispatched ==
    last.result = "navigated"
    => \A target \in {"router", "window"} :
          \E k \in DOMAIN last.emitted :
              /\ last.emitted[k].target = target
              /\ last.emitted[k].type = BEFORE_NAVIGATE
              /\ last.emitted[k].detail =
                    Detail(last.routePath, last.params, last.entry.handler,
                           last.entry.route.options.meta)

\* C21: overlapping calls are neither cancelled nor serialised: a step
\* leaves every suspended call that does not settle in it suspended, with
\* the route, params and guard result it holds unless it follows a
\* redirect; and a call that commits, whichever was requested first, makes
\* the history's current entry and currentPath, currentParams and
\* currentMeta its own.
C21_OverlapIndependent ==
    [][/\ \A j \in DOMAIN inflight :
             \/ Settles(j)
             \/ \E m \in DOMAIN inflight' :
                   /\ inflight'[m].id = inflight[j].id
                   /\ \/ /\ inflight'[m].entry = inflight[j].entry
                         /\ inflight'[m].params = inflight[j].params
                         /\ inflight'[m].guardResult = inflight[j].guardResult
                      \/ inflight[j].guardResult.kind = "string"
       /\ \A i \in DOMAIN inflight :
             (Settles(i) /\ last'.result = "navigated")
             => /\ hist'[histIdx'] = basePath \o last'.routePath
                /\ currentPath' = last'.routePath
                /\ currentParams' = last'.params
                /\ currentMeta' = last'.entry.route.options.meta]_vars

\* Two calls overlapped, the second committed first and the first last.
C21_Witness ==
    /\ inflight = << >>
    /\ navCount = 2
    /\ last.id = 1
    /\ last.result = "navigated"
    /\ ~last.alone
    /\ Len(events) = 4
    /\ events[1].type = NAVIGATE
    /\ events[1].detail.path # last.routePath
    /\ currentPath = last.routePath
    /\ hist[histIdx] = basePath \o last.routePath

\* C26: once start has run and no navigate() call is suspended, the router's
\* currentPath is the browser's location with the base path stripped.
C26_PathTracksLocation ==
    (isInitialized /\ inflight = << >>)
    => currentPath = stripBasePath(basePath, location(RS))

\* C7: a call whose path (the route path the registry is searched with) no
\* registered route matches evaluates no guard and writes no history; with
\* a not-found handler configured it dispatches navigation:notfound on the
\* router and on window with detail {path, params: {}, handler} and the
\* current route becomes that path with params {} and no meta; without one
\* it dispatches nothing and leaves the current route as it was.
C7_NotFound ==
    [][(/\ navCount' = navCount + 1
        /\ Matching(routes, stripBasePath(basePath', last'.arg)) = {}
        /\ last'.id = navCount')
       => LET path == stripBasePath(basePath', last'.arg)
              detail == Detail(path, NoParams, notFoundHandler, NoMeta)
              seen == [currentPath |-> path, currentParams |-> NoParams,
                       currentMeta |-> NoMeta, location |-> hist'[histIdx'],
                       basePath |-> basePath']
          IN  /\ hist' = hist
              /\ ~last'.guarded
              /\ IF notFoundHandler # NoHandler
                 THEN /\ events' = events \o <<EventOf("router", NOT_FOUND, detail, seen),
                                               EventOf("window", NOT_FOUND, detail, seen)>>
                      /\ currentPath' = path
                      /\ currentParams' = NoParams
                      /\ currentMeta' = NoMeta
                 ELSE UNCHANGED <<events, currentPath, currentParams, currentMeta>>]_vars

C7_Witness ==
    /\ last.result = "notfound"
    /\ ~last.first.set
    /\ notFoundHandler # NoHandler
    /\ Len(last.emitted) = 2
    /\ currentPath = last.routePath
    /\ last.pre.currentPath # currentPath

\* C9: only the first start() resolves the browser location; every later
\* call changes nothing of the router, the history or the events.  The
\* initial resolution, with any redirect it follows, replaces the current
\* history entry: the history keeps its length and its index.
C9_StartIdempotent ==
    [][/\ (startCalls' = startCalls + 1 /\ isInitialized)
          => UNCHANGED <<routerVars, browserVars, events, inflight, last, navCount>>
       /\ (startCalls' = startCalls + 1 /\ ~isInitialized)
          => /\ isInitialized'
             /\ navCount' = navCount + 1
             /\ Len(hist') = Len(hist)
             /\ histIdx' = histIdx
       /\ (SomeSettles /\ last'.origin = "start")
          => /\ Len(hist') = Len(hist)
             /\ histIdx' = histIdx]_vars

C9_Witness ==
    /\ startCalls = 2
    /\ last.origin = "start"
    /\ last.first.set
    /\ last.result = "navigated"
    /\ last.wrote.set


(***************************************************************************)
(* SpecApp: the App and its router.  Every event the router dispatches on  *)
(* itself is handled by the App's listeners within the dispatching step;   *)
(* the async methods of the App continue in steps of their own.            *)
(***************************************************************************)
\* The router.map calls of SpecApp.
AppRouteDefs ==
    { [path |-> PRoot, handler |-> Class("HomeView"), options |-> Options(NoGuard, NoMeta)],
      [path |-> PB,    handler |-> Class("UserView"), options |-> Options(NoGuard, Meta("main"))],
      [path |-> PX,    handler |-> Class("UserView"), options |-> Options(NoGuard, NoMeta)],
      [path |-> PX,    handler |-> Named("user"),     options |-> Options(OnlyB, Meta("null"))],
      [path |-> PB,    handler |-> Class("BView"),    options |-> Options(NoGuard, Meta(""))] }

\* The router's listeners run (App.ts:69-75).
Listen == app' = dispatchToApp(app, routes', events', Len(events) + 1)

RouterUnchanged == UNCHANGED <<routerVars, browserVars, events, navVars, probe>>

\* app.registerView(handler, viewClass)
RegisterView(r) ==
    /\ Configuring
    /\ app' = [app EXCEPT !.viewRegistry = Put(@, r[1], r[2])]
    /\ RouterUnchanged

\* app.registerLayout(handler, layoutClass)
RegisterLayout(r) ==
    /\ Configuring
    /\ app' = [app EXCEPT !.layoutRegistry = Put(@, r[1], r[2])]
    /\ RouterUnchanged

\* app.setDefaultLayout(handler)
SetDefaultLayout(h) ==
    /\ Configuring
    /\ app' = [app EXCEPT !.defaultLayout = h]
    /\ RouterUnchanged

\* The i-th suspended method of the App resumes.
AppResume(i) ==
    /\ app' = resumeTask([app EXCEPT !.tasks = Remove(@, i)], app.tasks[i])
    /\ RouterUnchanged

NextApp ==
    \/ \E d \in AppRouteDefs : Map(d) /\ Listen
    \/ \E h \in NotFoundHandlers : NotFound(h) /\ Listen
    \/ \E r \in ViewRegistrations : RegisterView(r)
    \/ \E r \in LayoutRegistrations : RegisterLayout(r)
    \/ \E h \in DefaultLayouts : SetDefaultLayout(h)
    \/ Start /\ Listen
    \/ \E p \in NavPaths, r \in BOOLEAN : Navigate(p, r) /\ Listen
    \/ \E delta \in {-1, 1} : PopState(delta) /\ Listen
    \/ \E i \in DOMAIN inflight : GuardResume(i) /\ Listen
    \/ \E i \in DOMAIN app.tasks : AppResume(i)

\* new App('#root') in a page loaded at /ab, without a <base> tag.
InitApp ==
    /\ Init
    /\ hist = <<PAB>>
    /\ baseTag = NoBaseTag

SpecApp == InitApp /\ [][NextApp]_vars

\* C4: when the App handles a navigation:navigate event whose handler
\* resolves to the class of the current view instance, no instance is
\* constructed, currentViewInstance stays the same instance, that
\* instance's updateParams is called with the event's params (and its
\* onParamsChanged hook, when the class defines one), and nothing that
\* navigation does, then or later, constructs an instance, begins a
\* transition or calls onMounted.
C4_SameViewReused ==
    [][/\ \A k \in (Len(events) + 1)..Len(events') :
             LET e == events'[k]
                 cur == app.currentViewInstance
             IN  (/\ e.target = "router"
                  /\ e.type = NAVIGATE
                  /\ cur # 0
                  /\ resolveViewClass(app, e.detail.handler) = app.instances[cur])
                 => /\ app'.instances = app.instances
                    /\ app'.currentViewInstance = cur
                    /\ \E j \in DOMAIN app'.log \ DOMAIN app.log :
                          app'.log[j] = [nav |-> k, op |-> "updateParams",
                                         inst |-> cur, params |-> e.detail.params]
                    /\ onParamsChangedDefined(app.instances[cur])
                       => \E j \in DOMAIN app'.log \ DOMAIN app.log :
                             app'.log[j] = [nav |-> k, op |-> "onParamsChanged",
                                            inst |-> cur, params |-> e.detail.params]
       /\ \A j, l \in DOMAIN app'.log :
             (app'.log[j].op = "updateParams" /\ app'.log[l].nav = app'.log[j].nav)
             => app'.log[l].op \in {"updateParams", "onParamsChanged"}]_vars

C4_Witness ==
    \E j \in DOMAIN app.log :
        /\ app.log[j].op = "onParamsChanged"
        /\ app.currentViewInstance = app.log[j].inst
        /\ app.tasks = << >>
        /\ \E k \in 1..(app.log[j].nav - 1) :
              /\ events[k].type = NAVIGATE
              /\ events[k].detail.params # app.log[j].params
              /\ events[k].detail.meta # events[app.log[j].nav].detail.meta


\* The App handles the event numbered k by constructing a view.
MountsNewView(k) ==
    /\ k \in (Len(events) + 1)..Len(events')
    /\ events'[k].target = "router"
    /\ events'[k].type = NAVIGATE
    /\ Len(app'.instances) > Len(app.instances)
    /\ app'.currentViewInstance = Len(app.instances) + 1

\* What the App does with the layout named l when it mounts a view: none
\* for null or the empty string, an instance of the registered class else.
UsesLayout(l) ==
    IF l \in {"null", ""}
    THEN /\ app'.currentLayoutInstance = 0
         /\ \E t \in Range(app'.tasks) :
               t.pc = "beginView" /\ t.view = app'.currentViewInstance
    ELSE Has(app.layoutRegistry, l)
         => /\ app'.currentLayoutInstance # 0
            /\ app'.instances[app'.currentLayoutInstance] = Get(app.layoutRegistry, l)
            /\ \A t \in Range(app'.tasks) :
                  ~(t.pc = "beginView" /\ t.view = app'.currentViewInstance)

\* C12: when a navigation mounts a new view, the layout used is the
\* route's meta.layout if the route defines one (null or empty meaning no
\* layout, whatever the default), else the default layout if one is set,
\* else none.
C12_LayoutPrecedence ==
    [][\A k \in (Len(events) + 1)..Len(events') :
          MountsNewView(k) =>
             LET meta == events'[k].detail.meta
             IN  IF meta.def /\ meta.layout # "undefined" THEN UsesLayout(meta.layout)
                 ELSE IF app.defaultLayout # "null" THEN UsesLayout(app.defaultLayout)
                 ELSE UsesLayout("null")]_vars

\* Mounted(k, cls): the navigation numbered k constructed an instance of cls.
Mounted(k, cls) ==
    \E j \in DOMAIN app.log :
        /\ app.log[j].nav = k
        /\ app.log[j].op = "new"
        /\ app.instances[app.log[j].inst] = cls

C12_Witness ==
    /\ app.defaultLayout = "side"
    /\ Has(app.layoutRegistry, "side")
    /\ app.currentLayoutInstance = 0
    /\ \E k1, k2 \in DOMAIN events :
          /\ k1 < k2
          /\ events[k1].target = "router" /\ events[k1].type = NAVIGATE
          /\ ~events[k1].detail.meta.def
          /\ Mounted(k1, "HomeView") /\ Mounted(k1, "BareLayout")
          /\ events[k2].target = "router" /\ events[k2].type = NAVIGATE
          /\ events[k2].detail.meta = Meta("")
          /\ Mounted(k2, "BView")
          /\ \A j \in DOMAIN app.log :
                app.log[j].nav = k2 => app.instances[app.log[j].inst] = "BView"


\* C13: when the App handles an event of its router whose handler is a
\* string that the view registry does not hold, it logs an error and does
\* nothing else: no instance is constructed, no transition is begun, no
\* method is left waiting, nothing is thrown (the handler reaches its
\* console.error and returns), and the current view and the current layout
\* are the instances they were.
C13_UnknownViewAborts ==
    [][\A k \in (Len(events) + 1)..Len(events') :
          LET e == events'[k]
          IN  (/\ e.target = "router"
               /\ e.detail.handler.kind = "string"
               /\ ~Has(app.viewRegistry, e.detail.handler.name))
              => /\ app'.log = Append(app.log, [nav |-> k, op |-> "error",
                                               inst |-> 0, params |-> NoParams])
                 /\ app'.instances = app.instances
                 /\ app'.tasks = app.tasks
                 /\ app'.currentViewInstance = app.currentViewInstance
                 /\ app'.currentLayoutInstance = app.currentLayoutInstance]_vars

C13_Witness ==
    /\ app.currentViewInstance # 0
    /\ app.currentLayoutInstance # 0
    /\ \E j \in DOMAIN app.log :
          /\ app.log[j].op = "error"
          /\ events[app.log[j].nav].detail.handler = Named("user")
          /\ ~Has(app.viewRegistry, "user")
          /\ \E i \in 1..(j - 1) :
                app.log[i].op = "new" /\ app.log[i].inst = app.currentViewInstance


\* The App handles the event numbered k, which resolves to a view class
\* other than the current view's and designates a layout that is not
\* registered.
UnknownLayout(k) ==
    /\ k \in (Len(events) + 1)..Len(events')
    /\ events'[k].target = "router"
    /\ events'[k].type = NAVIGATE
    /\ resolveViewClass(app, events'[k].detail.handler) # "null"
    /\ ~sameView(app, resolveViewClass(app, events'[k].detail.handler))
    /\ truthy(chooseLayout(app, events'[k].detail.meta))
    /\ ~Has(app.layoutRegistry, chooseLayout(app, events'[k].detail.meta))

C15_OldParamsPassed ==
    [][\A k \in (Len(events) + 1)..Len(events') :
          LET e == events'[k]
              cur == app.currentViewInstance
          IN  (/\ e.target = "router"
               /\ e.type = NAVIGATE
               /\ cur # 0
               /\ resolveViewClass(app, e.detail.handler) = app.instances[cur]
               /\ onParamsChangedDefined(app.instances[cur]))
              => app'.paramsChanged =
                    Append(app.paramsChanged,
                           [nav |-> k, inst |-> cur, params |-> e.detail.params,
                            oldParams |-> currentParams])]_vars


\* C18: when the App handles a navigation:notfound event whose handler
\* resolves to the class of the current view instance, that instance is
\* kept and none is constructed; otherwise a new instance is constructed,
\* becomes the current view and is begun in the top-level stack, with the
\* current layout cleared.
C18_NotFoundReuses ==
    [][\A k \in (Len(events) + 1)..Len(events') :
          LET e == events'[k]
              cls == resolveViewClass(app, e.detail.handler)
          IN  (e.target = "router" /\ e.type = NOT_FOUND /\ cls # "null")
              => IF sameView(app, cls)
                 THEN /\ app'.instances = app.instances
                      /\ app'.currentViewInstance = app.currentViewInstance
                 ELSE /\ app'.instances = Append(app.instances, cls)
                      /\ app'.currentViewInstance = Len(app.instances) + 1
                      /\ app'.currentLayoutInstance = 0
                      /\ app'.tasks = Append(app.tasks,
                                             Task(k, "beginView", Len(app.instances) + 1, 0))]_vars


\* The place of a lifecycle step in the order state initialisation,
\* onBeforeMount, binder.bind(), onMounted.
LifecycleRank(step) ==
    CASE step = "state"         -> 1
      [] step = "onBeforeMount" -> 2
      [] step = "bind"          -> 3
      [] OTHER                  -> 4

\* C19: the lifecycle steps of every instance happen in the order state
\* initialisation, onBeforeMount, binder.bind(), onMounted; an instance of
\* a class that defines onBeforeMount is never bound before that hook ran.
C19_LifecycleOrder ==
    \A i, j \in DOMAIN app.lifecycle :
        (i < j /\ app.lifecycle[i].inst = app.lifecycle[j].inst)
        => LifecycleRank(app.lifecycle[i].step) <= LifecycleRank(app.lifecycle[j].step)

\* The methods of the App that wait for a hook of a view to finish.
HookTasks == {"onParamsChanged", "onMounted"}

\* C20: no two hook invocations of one instance are in progress at the
\* same time.
C20_HooksNeverOverlap ==
    \A i, j \in DOMAIN app.tasks :
        (/\ i # j
         /\ app.tasks[i].pc \in HookTasks
         /\ app.tasks[j].pc \in HookTasks)
        => app.tasks[i].view # app.tasks[j].view


\* The log entries of the navigation numbered k that this step adds.
Logged(k, op, inst) ==
    \E j \in (Len(app.log) + 1)..Len(app'.log) :
        app'.log[j] = [nav |-> k, op |-> op, inst |-> inst, params |-> NoParams]

\* C23: a navigation that mounts a new view in a registered layout whose
\* class is the class of the current layout instance constructs no layout,
\* keeps the current layout instance and begins only the view, in the
\* layout's content outlet; otherwise it constructs one layout instance,
\* makes it current and begins it in the top-level stack.  A render
\* without layout, a not-found render included, clears the current layout;
\* and nothing but the handling of a router event constructs an instance
\* or changes the current layout.
C23_LayoutReused ==
    [][/\ \A k \in (Len(events) + 1)..Len(events') :
             LET e == events'[k]
                 l == chooseLayout(app, e.detail.meta)
                 v == Len(app.instances) + 1
                 cur == app.currentLayoutInstance
             IN  /\ (MountsNewView(k) /\ truthy(l) /\ Has(app.layoutRegistry, l))
                    => IF cur # 0 /\ app.instances[cur] = Get(app.layoutRegistry, l)
                       THEN /\ Len(app'.instances) = v
                            /\ app'.currentLayoutInstance = cur
                            /\ ~Logged(k, "begin", cur)
                            /\ hasOutlet(app.instances[cur])
                               => /\ Logged(k, "begin", v)
                                  /\ app'.tasks = Append(app.tasks,
                                                         Task(k, "beginOutlet", v, cur))
                       ELSE /\ app'.instances = Append(SubSeq(app'.instances, 1, v),
                                                       Get(app.layoutRegistry, l))
                            /\ app'.currentLayoutInstance = v + 1
                            /\ Logged(k, "begin", v + 1)
                            /\ ~Logged(k, "begin", v)
                            /\ app'.tasks = Append(app.tasks,
                                                   Task(k, "beginLayout", v, v + 1))
                 /\ (MountsNewView(k) /\ ~truthy(l)) => app'.currentLayoutInstance = 0
                 /\ (/\ e.target = "router" /\ e.type = NOT_FOUND
                     /\ Len(app'.instances) > Len(app.instances))
                    => app'.currentLayoutInstance = 0
       /\ events' = events
          => /\ app'.instances = app.instances
             /\ app'.currentLayoutInstance = app.currentLayoutInstance]_vars

\* Two views of different classes were mounted one after the other in one
\* layout instance, designated once by default and once by the route.
C23_Witness ==
    /\ app.tasks = << >>
    /\ app.currentLayoutInstance # 0
    /\ Cardinality({ i \in DOMAIN app.instances : app.instances[i] = "MainLayout" }) = 1
    /\ \E k1, k2 \in DOMAIN events :
          /\ k1 < k2
          /\ ~events[k1].detail.meta.def
          /\ events[k2].detail.meta = Meta("main")
          /\ Mounted(k1, "HomeView") /\ Mounted(k1, "MainLayout")
          /\ Mounted(k2, "UserView") /\ ~Mounted(k2, "MainLayout")
          /\ \E j \in DOMAIN app.log :
                /\ app.log[j].nav = k2
                /\ app.log[j].op = "begin"
                /\ app.instances[app.log[j].inst] = "UserView"


\* C27: once the App has handled the router event of a step, its current
\* route is the pattern of the first registered route that matches the
\* router's currentPath, and null when no route matches it.
C27_RoutePatternCurrent ==
    [][(\E k \in (Len(events) + 1)..Len(events') : events'[k].target = "router")
       => LET pat == getRoutePattern(routes', currentPath')
          IN  pat.kind = "ok" => app'.currentRoutePath = pat.value
      ]_vars

\* How many times op was logged for the instance inst.
Invocations(op, inst) ==
    Cardinality({j \in DOMAIN app.log : app.log[j].op = op /\ app.log[j].inst = inst})

\* C28: onMounted is invoked once per mount of a view: never more often than
\* the instance was handed to a stack-view, and as often once every method
\* of the App has finished, for the classes that define the hook.
C28_MountedOncePerMount ==
    \A inst \in DOMAIN app.instances :
        /\ Invocations("onMounted", inst) <= Invocations("begin", inst)
        /\ (app.tasks = << >> /\ onMountedDefined(app.instances[inst]))
           => Invocations("onMounted", inst) = Invocations("begin", inst)

\* The classes registered as layouts.
LayoutClasses == { r[2] : r \in LayoutRegistrations }

\* The log entries that hand a view (not a layout) to a stack-view.
ViewBegins ==
    {j \in DOMAIN app.log : /\ app.log[j].op = "begin"
                            /\ app.instances[app.log[j].inst] \notin LayoutClasses}

\* The view most recently handed to a stack-view, 0 when none was.
LastBegunView ==
    IF ViewBegins = {} THEN 0
    ELSE app.log[CHOOSE j \in ViewBegins : \A i \in ViewBegins : i <= j].inst

\* C29: when no method of the App is suspended, currentView is null or the
\* view most recently handed to a stack-view through begin.
C29_CurrentViewShown ==
    app.tasks = << >> => app.currentViewInstance \in {0, LastBegunView}

\* C30: when the App has handled a navigation event whose handler resolves
\* to a view class and whose layout (the route's, else the default) is
\* registered, the current layout instance is an instance of that layout's
\* class.
C30_LayoutFollowsRoute ==
    [][\A k \in (Len(events) + 1)..Len(events') :
          LET e == events'[k]
              l == chooseLayout(app, e.detail.meta)
          IN  (/\ e.target = "router"
               /\ e.type = NAVIGATE
               /\ resolveViewClass(app, e.detail.handler) # "null"
               /\ truthy(l)
               /\ Has(app.layoutRegistry, l))
              => /\ app'.currentLayoutInstance # 0
                 /\ app'.instances[app'.currentLayoutInstance] = Get(app.layoutRegistry, l)
      ]_vars

(***************************************************************************)
(* SpecMap: router.map at any time, also between navigations, each call    *)
(* recorded with its argument, the registry before it and what it returns. *)
(***************************************************************************)
InitMap ==
    /\ Init
    /\ hist = <<PAB>>
    /\ baseTag = NoBaseTag

\* router.map(d.path, d.handler, d.options), which returns this.
ProbeMap(d) ==
    /\ HasKey(routes, d.path) \/ Len(routes) < MaxRoutes
    /\ routes' = mapSet(routes, d)
    /\ inflight' = Disturb(inflight)
    /\ probe' = [pc |-> "map", def |-> d, before |-> routes, returned |-> "this"]
    /\ UNCHANGED <<notFoundHandler, isInitialized, basePath, currentPath,
                   currentParams, currentMeta, browserVars, events, last,
                   navCount, startCalls, app>>

NextMap ==
    \/ \E d \in RouteDefs : ProbeMap(d)
    \/ \E p \in NavPaths : Navigate(p, FALSE) /\ UNCHANGED app
    \/ \E i \in DOMAIN inflight : GuardResume(i) /\ UNCHANGED app

SpecMap == InitMap /\ [][NextMap]_vars

\* C11: the registry holds one entry per literal path; map of a path that
\* is already mapped replaces that entry's route (options) and handler in
\* place, every other entry keeping its position, and map of a new path
\* appends; map returns the router; and a navigation made after the last
\* map resolves with the entry, params and guard of the registry as it is
\* now.
C11_MapOverwrites ==
    /\ \A i, j \in DOMAIN routes :
          routes[i].route.path = routes[j].route.path => i = j
    /\ probe.pc = "map" =>
          LET d == probe.def
              old == probe.before
              K == { k \in DOMAIN old : old[k].route.path = d.path }
              newest == [route |-> Route(d.path, d.options), handler |-> d.handler]
          IN  /\ probe.returned = "this"
              /\ IF K = {} THEN routes = Append(old, newest)
                 ELSE /\ Len(routes) = Len(old)
                      /\ \A k \in DOMAIN old :
                            routes[k] = IF k \in K THEN newest ELSE old[k]
    /\ \A i \in DOMAIN inflight :
          inflight[i].alone =>
             LET n == inflight[i]
                 K == Matching(routes, n.routePath)
             IN  /\ K # {}
                 /\ n.entry = routes[Least(K)]
                 /\ n.guardResult = applyGuard(n.entry.route.options.canEnter, n.params)

C11_Witness ==
    /\ probe.pc = "map"
    /\ Len(probe.before) = 2
    /\ probe.before[1].route.path = probe.def.path
    /\ probe.before[1].handler # probe.def.handler
    /\ probe.before[1].route.options # probe.def.options
    /\ \E i \in DOMAIN inflight :
          /\ inflight[i].alone
          /\ inflight[i].entry = routes[1]
          /\ Cardinality(Matching(routes, inflight[i].routePath)) = 2


(***************************************************************************)
(* SpecGuard: the router with routes whose guards throw or reject.         *)
(***************************************************************************)
GuardRouteDefs ==
    { [path |-> PRoot, handler |-> Class("HomeView"), options |-> Options(NoGuard, NoMeta)],
      [path |-> PB,    handler |-> Class("BView"),    options |-> Options(Throws, Meta("main"))],
      [path |-> PX,    handler |-> Class("UserView"), options |-> Options(Rejects, NoMeta)],
      [path |-> PAB,   handler |-> Class("HomeView"), options |-> Options(Redirect(PB), NoMeta)] }

NextGuard ==
    \/ \E d \in GuardRouteDefs : Map(d) /\ UNCHANGED app
    \/ \E p \in NavPaths, r \in BOOLEAN : Navigate(p, r) /\ UNCHANGED app
    \/ \E delta \in {-1, 1} : PopState(delta) /\ UNCHANGED app
    \/ \E i \in DOMAIN inflight : GuardResume(i) /\ UNCHANGED app

SpecGuard == InitMap /\ [][NextGuard]_vars

\* C16: when the guard of the matched route throws or rejects, the call's
\* promise rejects, and the call leaves the history (entries and index),
\* currentPath, currentParams and currentMeta as they were and dispatches
\* no event: the step that settles it changes none of them, and a call
\* that ran with nothing else in between ends in the state it started from.
C16_GuardThrowRejects ==
    [][\A i \in DOMAIN inflight :
          (/\ Settles(i)
           /\ inflight[i].entry.route.options.canEnter.kind \in {"throws", "rejects"})
          => /\ last'.result = "rejected"
             /\ last'.emitted = << >>
             /\ last'.wrote = NoWrite
             /\ UNCHANGED <<hist, histIdx, currentPath, currentParams, currentMeta, events>>
             /\ inflight[i].alone => Observable(RSNext) = inflight[i].pre]_vars

C16_Witness ==
    /\ last.result = "rejected"
    /\ last.entry.route.options.canEnter = Throws
    /\ last.alone
    /\ Len(hist) = 2
    /\ currentPath = PRoot
    /\ events # << >>


(***************************************************************************)
(* SpecLive: the router with routes whose guards redirect, some of them in *)
(* a cycle, and every guard's promise resolving eventually.                *)
(***************************************************************************)
CycleRouteDefs ==
    { [path |-> PRoot, handler |-> Class("HomeView"), options |-> Options(Redirect(PB), NoMeta)],
      [path |-> PB,    handler |-> Class("BView"),    options |-> Options(Redirect(PRoot), NoMeta)],
      [path |-> PB,    handler |-> Class("BView"),    options |-> Options(NoGuard, Meta("main"))],
      [path |-> PAB,   handler |-> Class("HomeView"), options |-> Options(Redirect(PB), NoMeta)],
      [path |-> PX,    handler |-> Class("UserView"), options |-> Options(OnlyB, NoMeta)],
      [path |-> PX,    handler |-> Named("b"),        options |-> Options(Deny, NoMeta)] }

NextLive ==
    \/ \E d \in CycleRouteDefs : Map(d) /\ UNCHANGED app
    \/ \E h \in NotFoundHandlers : NotFound(h) /\ UNCHANGED app
    \/ \E p \in NavPaths : Navigate(p, FALSE) /\ UNCHANGED app
    \/ \E i \in DOMAIN inflight : GuardResume(i) /\ UNCHANGED app

\* The guard awaited longest returns.
HeadResumes == inflight # << >> /\ GuardResume(1) /\ UNCHANGED app

SpecLive == InitMap /\ [][NextLive]_vars /\ WF_vars(HeadResumes)

\* Whether the chain of redirects that starts with the call c of navigate
\* comes to an end within fuel further redirects.
RECURSIVE redirectEnds(_, _, _, _)
hopEnds(reg, base, c, fuel) ==
    \/ c.out # "await"
    \/ c.guardResult.kind # "string"
    \/ fuel > 0 /\ redirectEnds(reg, base, c.guardResult.to, fuel - 1)

redirectEnds(reg, base, path, fuel) ==
    hopEnds(reg, base, navigateCall(reg, base, NoHandler, RS, path), fuel)

\* The suspended call n is not in a redirect cycle: a chain of more
\* redirects than there are routes has passed some path twice.
Ends(n) ==
    \/ n.guardResult.kind # "string"
    \/ redirectEnds(routes, basePath, n.guardResult.to, Len(routes))

Pending(id) == \E i \in DOMAIN inflight : inflight[i].id = id

Writes(steps) ==
    Cardinality({ k \in DOMAIN steps : steps[k] \in {"pushState", "replaceState"} })

\* One event of the given type, dispatched on the router and then on window.
OneEvent(evs, type) ==
    /\ Len(evs) = 2
    /\ evs[1].target = "router" /\ evs[1].type = type
    /\ evs[2].target = "window" /\ evs[2].type = type
    /\ evs[1].detail = evs[2].detail

\* C22: with every guard returning eventually, a call whose chain of
\* redirects ends settles, and a call settles having written the history
\* once and dispatched one navigation:navigate (committed), or having
\* written nothing and dispatched at most one navigation:notfound (no
\* route), or nothing (denied); the steps of a call before it settles
\* write and dispatch nothing; and a call in a redirect cycle never
\* settles, so never writes or dispatches.
C22_SettlesUnlessCycle ==
    /\ [][/\ SomeSettles
             => /\ events' = events \o last'.emitted
                /\ CASE last'.result = "navigated" ->
                            /\ Writes(last'.steps) = 1
                            /\ OneEvent(last'.emitted, NAVIGATE)
                     [] last'.result = "notfound" ->
                            /\ Writes(last'.steps) = 0
                            /\ last'.emitted = << >> \/ OneEvent(last'.emitted, NOT_FOUND)
                     [] OTHER ->
                            /\ Writes(last'.steps) = 0
                            /\ last'.emitted = << >>
          /\ ~SomeSettles
             => UNCHANGED <<hist, histIdx, currentPath, currentParams,
                            currentMeta, events>>
          /\ \A i \in DOMAIN inflight : ~Ends(inflight[i]) => ~Settles(i)]_vars
    /\ \A id \in 1..MaxNav :
          (\E i \in DOMAIN inflight : inflight[i].id = id /\ Ends(inflight[i]))
          ~> ~Pending(id)

\* A call has gone once round a redirect cycle and is still suspended,
\* with nothing written, while a call made after it has settled.
C22_Witness ==
    /\ \E i \in DOMAIN inflight :
          /\ inflight[i].id = 1
          /\ inflight[i].first.set
          /\ inflight[i].routePath = inflight[i].arg
          /\ ~Ends(inflight[i])
    /\ last.id = 2
    /\ last.result = "notfound"
    /\ OneEvent(last.emitted, NOT_FOUND)
    /\ hist = <<PAB>>


(***************************************************************************)
(* SpecBase: setBasePath on every string of up to MaxBaseLen characters,   *)
(* followed by setBasePath(getBasePath()).                                 *)
(***************************************************************************)
BaseAlphabet == {"/", "a"}

BaseInputs == UNION { [1..n -> BaseAlphabet] : n \in 0..MaxBaseLen }

InitBase ==
    /\ Init
    /\ hist = <<PAB>>
    /\ baseTag = NoBaseTag

\* router.setBasePath(b)
ProbeSetBasePath(b) ==
    /\ SetBasePath(b)
    /\ probe' = [pc |-> "set", arg |-> b, before |-> basePath]
    /\ UNCHANGED app

\* router.setBasePath(router.getBasePath())
ProbeReapply ==
    /\ probe.pc = "set"
    /\ SetBasePath(basePath)
    /\ probe' = [pc |-> "reapplied", arg |-> basePath, before |-> basePath]
    /\ UNCHANGED app

NextBase ==
    \/ \E b \in BaseInputs : ProbeSetBasePath(b)
    \/ ProbeReapply

SpecBase == InitBase /\ [][NextBase]_vars

\* C10: after setBasePath(b), for every string b, getBasePath() begins with
\* exactly one "/" and does not end with "/", and setBasePath(getBasePath())
\* leaves the base path as it was.
C10_BasePathNormalised ==
    probe.pc \in {"set", "reapplied"} =>
        /\ basePath # Str0
        /\ basePath[1] = "/"
        /\ Len(basePath) >= 2 => basePath[2] # "/"
        /\ basePath[Len(basePath)] # "/"
        /\ probe.pc = "reapplied" => basePath = probe.before

(***************************************************************************)
(* SpecRoute: Route.generate followed by Route.match on the same route,    *)
(* for the patterns of TestPatterns and every parameter object that gives  *)
(* each parameter of the pattern a value of TestValues, in every insertion *)
(* order of its keys.                                                      *)
(***************************************************************************)
TestPatterns == { <<"/", ":", "a">>,
                  <<"/", "b", "/", ":", "a">>,
                  <<"/", ":", "a", "/", ":", "b">>,
                  <<"/", ":", "a", "b", "/", ":", "a">> }

\* Values without reserved characters.
TestValues == { <<"a">>, <<"b">>, <<"c">> }

\* The parameter objects for the names of a route: Object.entries order is
\* the insertion order of the keys.
EntriesFor(route) ==
    LET names == Range(route.paramNames)
        n == Cardinality(names)
    IN  { e \in [1..n -> names \X TestValues] :
            \A i, j \in 1..n : i # j => e[i][1] # e[j][1] }

AsParams(entries) == { <<entries[i][1], entries[i][2]>> : i \in DOMAIN entries }

NoMatch == [kind |-> "null", params |-> NoParams]

InitRoute ==
    /\ routes = << >>
    /\ notFoundHandler = NoHandler
    /\ isInitialized = FALSE
    /\ basePath = Str0
    /\ currentPath = <<"/">>
    /\ currentParams = NoParams
    /\ currentMeta = NoMeta
    /\ hist = <<PRoot>>
    /\ histIdx = 1
    /\ baseTag = NoBaseTag
    /\ events = << >>
    /\ inflight = << >>
    /\ last = NoNav
    /\ navCount = 0
    /\ startCalls = 0
    /\ app = NewApp
    /\ \E p \in TestPatterns :
         LET r == Route(p, Options(NoGuard, NoMeta))
         IN  \E e \in EntriesFor(r) :
               probe = [pc |-> "new", route |-> r, entries |-> e,
                        url |-> Str0, result |-> NoMatch]

\* url = route.generate(params)
ProbeGenerate ==
    /\ probe.pc = "new"
    /\ probe' = [probe EXCEPT !.pc = "generated",
                              !.url = generate(probe.route, probe.entries)]
    /\ UNCHANGED <<routerVars, browserVars, events, navVars, app>>

\* result = route.match(url)
ProbeMatch ==
    /\ probe.pc = "generated"
    /\ probe' = [probe EXCEPT !.pc = "matched",
                              !.result = match(probe.route, probe.url)]
    /\ UNCHANGED <<routerVars, browserVars, events, navVars, app>>

NextRoute == ProbeGenerate \/ ProbeMatch

SpecRoute == InitRoute /\ [][NextRoute]_vars

\* C8: for every pattern and every parameter object v that supplies a value
\* free of reserved characters for each parameter of the pattern,
\* match(generate(v)) returns a mapping equal to v.
C8_RoundTrip ==
    probe.pc = "matched" =>
        /\ probe.result.kind = "params"
        /\ probe.result.params = AsParams(probe.entries)

-----------------------------------------------------------------------------
\* One AppView instance (AppView.ts), driven by the element lifecycle calls
\* that StackView and the DOM make on it.  The instance lives in probe.

MaxViewCalls == 6

HookSets == {{}, {"onMounted"}, {"onUnmounted"},
             {"onBeforeMount", "onMounted", "onBeforeUnmount", "onUnmounted"}}

\* field initialisers: binder = null, _state undefined, _isInitialized = false
NewView(hooks) ==
    [pc |-> "view", constructed |-> FALSE, hooks |-> hooks,
     isInitialized |-> FALSE, binder |-> 0, state |-> 0,
     states |-> 0, binders |-> << >>, pending |-> 0, calls |-> 0,
     hookLog |-> << >>]

\* new TemplateBinder(root, state, transitionClass)
TemplateBinder(s) == [state |-> s, bound |-> FALSE, destroyed |-> FALSE]

\* the view calls one of its optional hooks; the entry keeps what the hook sees
callHook(v, name) ==
    IF name \in v.hooks
    THEN [v EXCEPT !.hookLog = Append(@, [op |-> name,
                                          isInitialized |-> v.isInitialized,
                                          binder |-> v.binder,
                                          state |-> v.state])]
    ELSE v

\* initialize(): a fresh state object, a new binder on it, bind(), flag set
viewInitialize(v) ==
    IF v.isInitialized
    THEN v
    ELSE LET s == v.states + 1
             b == Len(v.binders) + 1
         IN  [v EXCEPT !.states = s,
                       !.state = s,
                       !.binders = Append(@, [TemplateBinder(s) EXCEPT !.bound = TRUE]),
                       !.binder = b,
                       !.isInitialized = TRUE]

\* constructor: template parsed, then this.initialize()
viewConstructor(v) == viewInitialize([v EXCEPT !.constructed = TRUE])

\* stackViewHidden() with the flag left set
viewHiddenKeepsFlag(v) ==
    callHook(IF v.binder # 0
             THEN [v EXCEPT !.binders[v.binder].destroyed = TRUE, !.binder = 0]
             ELSE v,
             "onUnmounted")

\* stackViewHidden(): binder.destroy(), binder = null, flag cleared, onUnmounted
viewHidden(v) ==
    LET d == IF v.binder # 0
             THEN [v EXCEPT !.binders[v.binder].destroyed = TRUE, !.binder = 0]
             ELSE v
    IN  callHook([d EXCEPT !.isInitialized = FALSE], "onUnmounted")

\* connectedCallback() up to its first await
viewConnected(v) ==
    IF ~v.isInitialized
    THEN [viewInitialize(v) EXCEPT !.pending = @ + 1]
    ELSE callHook(v, "onMounted")

InitView ==
    /\ routes = << >>
    /\ notFoundHandler = NoHandler
    /\ isInitialized = FALSE
    /\ basePath = Str0
    /\ currentPath = <<"/">>
    /\ currentParams = NoParams
    /\ currentMeta = NoMeta
    /\ hist = <<PRoot>>
    /\ histIdx = 1
    /\ baseTag = NoBaseTag
    /\ events = << >>
    /\ inflight = << >>
    /\ last = NoNav
    /\ navCount = 0
    /\ startCalls = 0
    /\ app = NewApp
    /\ \E hooks \in HookSets : probe = NewView(hooks)

ViewStep(v) ==
    /\ probe' = [v EXCEPT !.calls = probe.calls + 1]
    /\ UNCHANGED <<routerVars, browserVars, events, navVars, app>>

\* new ViewClass()
ViewNew ==
    /\ ~probe.constructed
    /\ ViewStep(viewConstructor(probe))

\* stackView calls stackViewShowing()
ViewShowing ==
    /\ probe.constructed /\ probe.calls < MaxViewCalls
    /\ "onBeforeMount" \in probe.hooks
    /\ ViewStep(callHook(probe, "onBeforeMount"))

\* the element is attached: connectedCallback()
ViewConnected ==
    /\ probe.constructed /\ probe.calls < MaxViewCalls
    /\ ViewStep(viewConnected(probe))

\* connectedCallback() resumes after await this.initialize()
ViewConnectedResumes ==
    /\ probe.pending > 0
    /\ ViewStep(callHook([probe EXCEPT !.pending = @ - 1], "onMounted"))

\* stackView calls stackViewHiding()
ViewHiding ==
    /\ probe.constructed /\ probe.calls < MaxViewCalls
    /\ "onBeforeUnmount" \in probe.hooks
    /\ ViewStep(callHook(probe, "onBeforeUnmount"))

\* stackView calls stackViewHidden()
ViewHidden ==
    /\ probe.constructed /\ probe.calls < MaxViewCalls
    /\ ViewStep(viewHidden(probe))

NextView ==
    \/ ViewNew
    \/ ViewShowing
    \/ ViewConnected
    \/ ViewConnectedResumes
    \/ ViewHiding
    \/ ViewHidden

SpecView == InitView /\ [][NextView]_vars

\* C24: between method executions isInitialized is true exactly when a binder
\* exists; stackViewHidden has destroyed the binder, set it to null and cleared
\* the flag by the time onUnmounted runs; a connectedCallback that finds the
\* flag cleared leaves the view with a state object and a binder that did not
\* exist before, the binder built on that state and bound.
C24_BinderTracksFlag ==
    /\ [](probe.isInitialized <=> probe.binder # 0)
    /\ [][/\ ViewHidden =>
               /\ probe.binder # 0 => probe'.binders[probe.binder].destroyed
               /\ probe'.binder = 0 /\ ~probe'.isInitialized
               /\ "onUnmounted" \in probe.hooks =>
                    /\ Len(probe'.hookLog) = Len(probe.hookLog) + 1
                    /\ LET h == probe'.hookLog[Len(probe'.hookLog)]
                       IN  h.op = "onUnmounted" /\ h.binder = 0 /\ ~h.isInitialized
          /\ (ViewConnected /\ ~probe.isInitialized) =>
               /\ probe'.isInitialized
               /\ probe'.state > probe.states
               /\ probe'.binder > Len(probe.binders)
               /\ probe'.binders[probe'.binder] =
                    [state |-> probe'.state, bound |-> TRUE, destroyed |-> FALSE]
         ]_vars

\* a view that was torn down by stackViewHidden and initialised again on connect
C24_Witness ==
    /\ probe.isInitialized
    /\ probe.binder = 2
    /\ probe.state = 2
    /\ probe.binders[1].destroyed
    /\ \E i \in 1..Len(probe.hookLog) : probe.hookLog[i].op = "onUnmounted"

-----------------------------------------------------------------------------
\* The router in pages loaded under the base path "/a", at locations whose
\* route path does or does not begin with the characters of the base path.

PAAB   == <<"/", "a", "/", "a", "b">>
PAAslB == <<"/", "a", "/", "a", "/", "b">>

BaseLocations == {PAslB, PAAB, PAAslB}

InitLoc ==
    /\ routes = << >>
    /\ notFoundHandler = NoHandler
    /\ isInitialized = FALSE
    /\ basePath = Str0
    /\ currentPath = <<"/">>
    /\ currentParams = NoParams
    /\ currentMeta = NoMeta
    /\ hist \in {<<l>> : l \in BaseLocations}
    /\ histIdx = 1
    /\ baseTag \in BaseTags
    /\ events = << >>
    /\ inflight = << >>
    /\ last = NoNav
    /\ navCount = 0
    /\ startCalls = 0
    /\ probe = NoProbe
    /\ app = NewApp

NextLoc ==
    \/ \E d \in RouteDefs : Map(d) /\ UNCHANGED app
    \/ \E b \in BaseChoices : SetBasePath(b) /\ UNCHANGED <<probe, app>>
    \/ Start /\ UNCHANGED app
    \/ \E p \in NavPaths : Navigate(p, FALSE) /\ UNCHANGED app
    \/ \E delta \in {-1, 1} : PopState(delta) /\ UNCHANGED app
    \/ \E i \in DOMAIN inflight : GuardResume(i) /\ UNCHANGED app

SpecLoc == InitLoc /\ [][NextLoc]_vars

\* A navigate() call is made in this step; Called is that call after the step.
Calls == navCount' = navCount + 1

Called == IF last'.id = navCount' THEN last' ELSE inflight'[Len(inflight')]

\* C25: with a base path b set, a start or popstate that finds the browser at
\* b + p, p a route path, resolves the route and the params that matching p
\* against the registered routes gives, also when p begins with the
\* characters of b.
C25_BaseStrippedOnce ==
    [][Calls =>
         LET n == Called
             loc == location(n.pre)
             p == slice(loc, Len(basePath'))
             m == findRoute(routes, p)
         IN  (/\ n.origin \in {"start", "popstate"}
              /\ basePath' # Str0
              /\ startsWith(loc, basePath')
              /\ startsWith(p, <<"/">>))
             => /\ n.entry = m.entry
                /\ n.params = m.params
      ]_vars

=============================================================================
